---- MODULE Spec2Model ----
(***************************************************************************)
(* Densa PHCU Report System (src/app.py): a Streamlit script with three    *)
(* pages (Data Entry, Dashboard, CBHI Performance Report) over one Google  *)
(* Sheet.  Every browser session reruns the script top to bottom; the      *)
(* sheet and the st.cache_data cache are shared by all sessions.           *)
(*                                                                         *)
(* Three specifications:                                                   *)
(*   Spec      the sessions, the sheet, the cache and the network;         *)
(*   SpecAgg   the dashboard and report computations applied to sheet      *)
(*             contents drawn from a bounded set (hand-edited cells too);  *)
(*   SpecPerf  the "Performance %" computation applied to drawn numbers.   *)
(***************************************************************************)
EXTENDS Integers, Sequences, FiniteSets, TLC

VARIABLES
    store,          \* data rows of the sheet (below its header row), in sheet order
    reachable,      \* TRUE while the Google API can be reached
    cache,          \* st.cache_data entry of get_google_sheet: "empty" or "sheet"
    pc,             \* per session: position in the running script
    job,            \* per session: widget values and locals of the running script
    screen,         \* what the last finished run rendered, and in which session
    written,        \* history: rows whose append_row call returned, in call order
    presses,        \* history: number of Submit presses with name and phone filled in
    failed,         \* history: how many of them ended without a row appended
    df,             \* SpecAgg: the records get_all_records returned
    filter_inst,    \* SpecAgg: the multiselect value
    page,           \* SpecAgg: the page rendered, "none" before the render
    out,            \* SpecAgg: what the page rendered
    total_achieved, \* SpecPerf: df_final['Total Achieved'] of one row
    total_plan,     \* SpecPerf: df_final['Total Plan'] of one row
    perf            \* SpecPerf: the formatted 'Performance %' cell

vars == <<store, reachable, cache, pc, job, screen, written, presses, failed,
          df, filter_inst, page, out, total_achieved, total_plan, perf>>

mainVars == <<store, reachable, cache, pc, job, screen, written, presses, failed>>
aggVars == <<df, filter_inst, page, out>>
perfVars == <<total_achieved, total_plan, perf>>

----------------------------------------------------------------------------
(* Bounds *)

MaxPresses == 2     \* accepted Submit presses in Spec
MaxRows == 2        \* rows of the drawn sheet contents in SpecAgg
MaxBad == 1         \* indicator cells edited to text in SpecAgg
MaxPerfArg == 9     \* largest total drawn in SpecPerf

----------------------------------------------------------------------------
(* Static data *)

HP == "CBHI membership renewal (higher paid)"
MP == "CBHI membership renewal (medium paid)"
FR == "CBHI membership renewal (free)"
NM == "CBHI new membership"
TOTAL == "Total CBHI (Auto)"

CBHI_PLAN ==
    [i \in {"Densa HC /Merged Health Post", "02 Densa Zuriya Health Post",
            "03 Derew Health Post", "04 Wejed Health Post", "06 Gert Health Post",
            "07 Lenguat Health Post", "08 Alegeta Health Post", "09 Sensa Health Post"} |->
        CASE i = "Densa HC /Merged Health Post" ->
                 [k \in {"higher paid", "medium paid", "free", "new membership"} |->
                    CASE k = "higher paid" -> 453 [] k = "medium paid" -> 551
                      [] k = "free" -> 474 [] OTHER -> 251]
          [] i = "02 Densa Zuriya Health Post" ->
                 [k \in {"higher paid", "medium paid", "free", "new membership"} |->
                    CASE k = "higher paid" -> 147 [] k = "medium paid" -> 316
                      [] k = "free" -> 155 [] OTHER -> 0]
          [] i = "03 Derew Health Post" ->
                 [k \in {"higher paid", "medium paid", "free", "new membership"} |->
                    CASE k = "higher paid" -> 456 [] k = "medium paid" -> 557
                      [] k = "free" -> 478 [] OTHER -> 429]
          [] i = "04 Wejed Health Post" ->
                 [k \in {"higher paid", "medium paid", "free", "new membership"} |->
                    CASE k = "higher paid" -> 246 [] k = "medium paid" -> 346
                      [] k = "free" -> 249 [] OTHER -> 0]
          [] i = "06 Gert Health Post" ->
                 [k \in {"higher paid", "medium paid", "free", "new membership"} |->
                    CASE k = "higher paid" -> 237 [] k = "medium paid" -> 298
                      [] k = "free" -> 255 [] OTHER -> 22]
          [] i = "07 Lenguat Health Post" ->
                 [k \in {"higher paid", "medium paid", "free", "new membership"} |->
                    CASE k = "higher paid" -> 240 [] k = "medium paid" -> 328
                      [] k = "free" -> 244 [] OTHER -> 0]
          [] i = "08 Alegeta Health Post" ->
                 [k \in {"higher paid", "medium paid", "free", "new membership"} |->
                    CASE k = "higher paid" -> 217 [] k = "medium paid" -> 252
                      [] k = "free" -> 248 [] OTHER -> 22]
          [] OTHER ->
                 [k \in {"higher paid", "medium paid", "free", "new membership"} |->
                    CASE k = "higher paid" -> 173 [] k = "medium paid" -> 272
                      [] k = "free" -> 179 [] OTHER -> 0]]

\* list(CBHI_PLAN.keys()): the keys in insertion order
INSTITUTIONS ==
    <<"Densa HC /Merged Health Post", "02 Densa Zuriya Health Post",
      "03 Derew Health Post", "04 Wejed Health Post", "06 Gert Health Post",
      "07 Lenguat Health Post", "08 Alegeta Health Post", "09 Sensa Health Post">>

\* The ordered mapping category -> indicators.  Of the 30 indicators the model
\* keeps one plain count ("Household visited"; the other 23 plain counts go
\* through exactly the same code), the four CBHI membership counts and one
\* money field.
METRICS_GROUPS ==
    << <<"Disease Prevention", <<"Household visited">> >>,
       <<"CBHI", <<HP, MP, FR, NM, "CBHI money collected (ETB)">> >> >>

RECURSIVE Extend(_, _)
Extend(groups, acc) ==
    IF groups = <<>> THEN acc
    ELSE Extend(Tail(groups), acc \o Head(groups)[2])

\* ALL_METRICS: every group's indicators in order, then the derived total
ALL_METRICS == Extend(METRICS_GROUPS, <<>>) \o <<TOTAL>>

Range(s) == {s[i] : i \in 1..Len(s)}

\* "money" in m, worked out on the indicator names
HasMoney(m) == m \in {"CBHI money collected (ETB)", "CBHI money saved to bank (ETB)"}

\* The header row of the sheet.  The script never writes it: the sheet is
\* set up with it before use (get_all_records reads row 1 as the keys, and
\* the pages index the columns 'Institution' and the indicator names).
HEADER == <<"Date", "Reporter Name", "Reporter Phone", "Institution", "Timestamp">>
              \o ALL_METRICS

----------------------------------------------------------------------------
(* Cells.  A cell read from the sheet is <<"int", n>> for a number and     *)
(* <<"str", s>> for text.                                                  *)

Get(d, k, default) == IF k \in DOMAIN d THEN d[k] ELSE default

RECURSIVE SeqSum(_)
SeqSum(s) == IF s = <<>> THEN 0 ELSE Head(s) + SeqSum(Tail(s))

Pos(h) == CHOOSE i \in 1..Len(HEADER) : HEADER[i] = h

\* gspread's numericise on a text cell: text that reads as a number comes
\* back as that number (int("0911") = 911), any other text as it is.
numericise(text) ==
    CASE text = "0911" -> <<"int", 911>>
      [] OTHER -> <<"str", text>>

\* One sheet row as get_all_records returns it: a dict keyed by the header.
\* The five leading columns hold text, the rest the numbers of the form.
record_of(row) ==
    [h \in Range(HEADER) |->
        IF Pos(h) <= 5 THEN numericise(row[Pos(h)]) ELSE <<"int", row[Pos(h)]>>]

\* Variant: the read misses the last row of the sheet
get_all_records_lagging(rows) ==
    [i \in 1..(IF rows = <<>> THEN 0 ELSE Len(rows) - 1) |-> record_of(rows[i])]

\* sheet.get_all_records() on a sheet whose data rows are rows
get_all_records(rows) == [i \in 1..Len(rows) |-> record_of(rows[i])]

\* pd.to_numeric(errors='coerce') on one cell: the number, or NaN.  (Text
\* left in a dataframe cell is never number-like: numericise already turned
\* number-like text into numbers.)
to_numeric(cell) == IF cell[1] = "int" THEN <<"num", cell[2]>> ELSE <<"nan", 0>>

\* fillna(0) on one cell
fillna0(x) == IF x[1] = "nan" THEN 0 ELSE x[2]

\* .apply(pd.to_numeric, errors='coerce').fillna(0) on column col of frame
numeric_column(frame, col) ==
    [i \in 1..Len(frame) |-> fillna0(to_numeric(frame[i][col]))]

----------------------------------------------------------------------------
(* Data Entry page: the pure parts *)

\* Variant: the new memberships are left out of the total
total_cbhi_renewals(data_values) ==
    Get(data_values, HP, 0) + Get(data_values, MP, 0) + Get(data_values, FR, 0)

\* total_cbhi of the submitted branch
total_cbhi(data_values) ==
    Get(data_values, HP, 0) + Get(data_values, MP, 0)
        + Get(data_values, FR, 0) + Get(data_values, NM, 0)

\* row_data: five leading cells, then one cell per entry of ALL_METRICS
row_data(report_date, reporter_name, reporter_phone, institution, timestamp, data_values) ==
    LET dv == [m \in DOMAIN data_values \cup {TOTAL} |->
                  IF m = TOTAL THEN total_cbhi(data_values) ELSE data_values[m]]
    IN  <<report_date, reporter_name, reporter_phone, institution, timestamp>>
            \o [i \in 1..Len(ALL_METRICS) |-> Get(dv, ALL_METRICS[i], 0)]

----------------------------------------------------------------------------
(* Dashboard page: the pure parts *)

\* Variant: isin is applied to an empty selection too
df_filtered_isin(frame, sel) ==
    SelectSeq(frame, LAMBDA r : \E i \in sel : r["Institution"] = <<"str", i>>)

\* df[df['Institution'].isin(filter_inst)], or df itself for an empty filter
df_filtered(frame, sel) ==
    IF sel # {}
    THEN SelectSeq(frame, LAMBDA r : \E i \in sel : r["Institution"] = <<"str", i>>)
    ELSE frame

\* sum_metrics: every metric but the money fields
sum_metrics == SelectSeq(ALL_METRICS, LAMBDA m : ~HasMoney(m))

\* total_row: numeric_df.sum()
total_row(frame) ==
    [m \in Range(sum_metrics) |-> SeqSum(numeric_column(frame, m))]

NoTotals == [m \in {} |-> 0]

\* Variant: the totals are taken over df, not over df_filtered
Dashboard_df_totals(frame, sel) ==
    IF frame # <<>>
    THEN [message |-> "table", table |-> df_filtered(frame, sel),
          totals |-> total_row(frame), download |-> "Densa_Report.xlsx"]
    ELSE [message |-> "No data found.", table |-> <<>>,
          totals |-> NoTotals, download |-> "none"]

\* What one run of the Dashboard page renders from the records it read
Dashboard(frame, sel) ==
    IF frame # <<>>
    THEN [message |-> "table", table |-> df_filtered(frame, sel),
          totals |-> total_row(df_filtered(frame, sel)), download |-> "Densa_Report.xlsx"]
    ELSE [message |-> "No data found.", table |-> <<>>,
          totals |-> NoTotals, download |-> "none"]

----------------------------------------------------------------------------
(* CBHI Performance Report page: the pure parts *)

cbhi_achievement_cols == <<HP, MP, FR, NM>>

\* groupby('Institution')[cbhi_achievement_cols].sum(): one entry per
\* institution cell present in the frame
df_aggregated(frame) ==
    [inst \in {frame[i]["Institution"] : i \in 1..Len(frame)} |->
        [c \in Range(cbhi_achievement_cols) |->
            SeqSum(numeric_column(
                SelectSeq(frame, LAMBDA r : r["Institution"] = inst), c))]]

\* f"{x:,.1f}%" of x = (achieved / plan) * 100 in float64 arithmetic: the
\* quotient in tenths of a percent, rounded half to even; x/0 is inf and
\* 0/0 is nan, and they format as "inf%" and "nan%".
Performance(achieved, plan) ==
    IF plan = 0
    THEN [text |-> IF achieved = 0 THEN "nan%" ELSE "inf%", tenths |-> 0]
    ELSE LET q == (achieved * 1000) \div plan
             r == (achieved * 1000) % plan
         IN  [text |-> "number%",
              tenths |-> IF 2 * r > plan \/ (2 * r = plan /\ q % 2 = 1)
                         THEN q + 1 ELSE q]

\* One row of df_final: the plan row of institution k merged (how='left',
\* fillna(0)) with its entry of df_aggregated, plus the derived columns
final_row(k, agg) ==
    LET achieved(c) == IF <<"str", k>> \in DOMAIN agg THEN agg[<<"str", k>>][c] ELSE 0
        plan == CBHI_PLAN[k]
        tp == plan["higher paid"] + plan["medium paid"] + plan["free"] + plan["new membership"]
        ta == achieved(HP) + achieved(MP) + achieved(FR) + achieved(NM)
    IN  [Institution |-> k,
         Total_Plan |-> tp, Total_Achieved |-> ta, Performance |-> Performance(ta, tp),
         Plan_Higher_Paid |-> plan["higher paid"], Achieved_Higher_Paid |-> achieved(HP),
         Plan_Medium_Paid |-> plan["medium paid"], Achieved_Medium_Paid |-> achieved(MP),
         Plan_Free |-> plan["free"], Achieved_Free |-> achieved(FR),
         Plan_New_Membership |-> plan["new membership"], Achieved_New_Membership |-> achieved(NM)]

\* Variant: the merge is how='inner', keeping only institutions with records
df_final_inner(frame) ==
    SelectSeq([i \in 1..Len(INSTITUTIONS) |-> final_row(INSTITUTIONS[i], df_aggregated(frame))],
              LAMBDA r : <<"str", r.Institution>> \in DOMAIN df_aggregated(frame))

\* df_final: one row per key of CBHI_PLAN, in key order
df_final(frame) ==
    [i \in 1..Len(INSTITUTIONS) |-> final_row(INSTITUTIONS[i], df_aggregated(frame))]

\* What one run of the report page renders from the records it read
Report(frame) ==
    IF frame = <<>>
    THEN [message |-> "No data submitted yet to generate the performance report.",
          table |-> <<>>, totals |-> NoTotals, download |-> "none"]
    ELSE [message |-> "table", table |-> df_final(frame),
          totals |-> NoTotals, download |-> "CBHI_Performance_Report.csv"]

----------------------------------------------------------------------------
(* Inputs of the runs *)

Sessions == {"s1", "s2"}

Dates == {"2024-01-01"}
\* str(datetime.now()): one instant, so that a resubmission can repeat a row
\* cell for cell
Instants == {"2024-01-01 09:00:00.000000"}
Names == {"", "Abebe"}
Phones == {"", "0911"}

\* the options the model picks in the institution selectbox and multiselect
Selectable == {"02 Densa Zuriya Health Post", "03 Derew Health Post"}

FormIndicators == Range(Extend(METRICS_GROUPS, <<>>))

\* The values typed into the form (number_input(min_value=0, step=1) for
\* every indicator): every field left at 0, or the form of the end-to-end
\* example (higher paid 5, medium paid 3, free 2, new membership 1) with the
\* plain count and the money field filled in as well.
FormInputs ==
    {[m \in FormIndicators |-> 0],
     [m \in FormIndicators |->
        CASE m = HP -> 5 [] m = MP -> 3 [] m = FR -> 2 [] m = NM -> 1
          [] m = "Household visited" -> 4 [] OTHER -> 7]}

----------------------------------------------------------------------------
(* Spec: sessions, sheet, cache, network *)

Screen(msg) == [message |-> msg, table |-> <<>>, totals |-> NoTotals, download |-> "none"]

\* what session s's finished run rendered
Render(s, o) == o

NoJob ==
    [page |-> "none", row_data |-> <<>>, total_cbhi |-> 0, filter_inst |-> {}]

\* Variant: if reporter_name or reporter_phone
FormEnabled_either(reporter_name, reporter_phone) == reporter_name # "" \/ reporter_phone # ""

\* if reporter_name and reporter_phone
FormEnabled(reporter_name, reporter_phone) == reporter_name # "" /\ reporter_phone # ""

\* get_google_sheet() under @st.cache_data: a cached entry is returned
\* without touching the network; otherwise the sheet is opened and cached,
\* or the error is shown and the run stopped (nothing is cached then).
get_google_sheet(entry, up) ==
    IF entry = "sheet" THEN [ok |-> TRUE, cache |-> "sheet"]
    ELSE IF up THEN [ok |-> TRUE, cache |-> "sheet"]
    ELSE [ok |-> FALSE, cache |-> "empty"]

\* Variant: the row is inserted right below the header
append_row_top(rows, row) == <<row>> \o rows

\* Variant: the row is written over the last row of the sheet
append_row_over(rows, row) ==
    IF rows = <<>> THEN <<row>> ELSE [rows EXCEPT ![Len(rows)] = row]

\* sheet.append_row(row): one request to the sheet service, which puts the
\* whole row below the last row of the sheet
append_row(rows, row) == Append(rows, row)

MainIdle ==
    /\ store = <<>>
    /\ reachable = TRUE
    /\ cache = "empty"
    /\ pc = [s \in Sessions |-> "idle"]
    /\ job = [s \in Sessions |-> NoJob]
    /\ screen = Render("none", Screen("none"))
    /\ written = <<>>
    /\ presses = 0
    /\ failed = 0

AggIdle ==
    /\ df = <<>>
    /\ filter_inst = {}
    /\ page = "none"
    /\ out = Screen("none")

PerfIdle ==
    /\ total_achieved = 0
    /\ total_plan = 0
    /\ perf = [text |-> "none", tenths |-> 0]

Init == MainIdle /\ AggIdle /\ PerfIdle

\* Data Entry run with the name or the phone empty: the form is not
\* rendered, the warning is
EntryBlocked(s) ==
    /\ pc[s] = "idle"
    /\ \E report_date \in Dates, reporter_name \in Names, reporter_phone \in Phones,
          institution \in Selectable :
          ~FormEnabled(reporter_name, reporter_phone)
    /\ screen' = Render(s, Screen("Enter Name and Phone to enable the form."))
    /\ UNCHANGED <<store, reachable, cache, pc, job, written, presses, failed>>
    /\ UNCHANGED <<aggVars, perfVars>>

\* Data Entry run with name and phone filled in and Submit not pressed
EntryForm(s) ==
    /\ pc[s] = "idle"
    /\ \E report_date \in Dates, reporter_name \in Names, reporter_phone \in Phones,
          institution \in Selectable :
          FormEnabled(reporter_name, reporter_phone)
    /\ screen' = Render(s, Screen("entry_form"))
    /\ UNCHANGED <<store, reachable, cache, pc, job, written, presses, failed>>
    /\ UNCHANGED <<aggVars, perfVars>>

\* Data Entry run with Submit pressed, up to the call of sheet.append_row:
\* total_cbhi, get_google_sheet(), row_data
EntrySubmit(s) ==
    /\ pc[s] = "idle"
    /\ presses < MaxPresses
    /\ \E report_date \in Dates, reporter_name \in Names, reporter_phone \in Phones,
          institution \in Selectable, data_values \in FormInputs, timestamp \in Instants :
          /\ FormEnabled(reporter_name, reporter_phone)
          /\ LET sheet == get_google_sheet(cache, reachable)
             IN  /\ cache' = sheet.cache
                 /\ presses' = presses + 1
                 /\ IF sheet.ok
                    THEN /\ pc' = [pc EXCEPT ![s] = "append_row"]
                         /\ job' = [job EXCEPT ![s] =
                                [NoJob EXCEPT
                                    !.page = "entry",
                                    !.total_cbhi = total_cbhi(data_values),
                                    !.row_data = row_data(report_date, reporter_name,
                                        reporter_phone, institution, timestamp, data_values)]]
                         /\ UNCHANGED <<screen, failed>>
                    ELSE /\ screen' = Render(s, Screen("Connection Error"))
                         /\ failed' = failed + 1
                         /\ UNCHANGED <<pc, job>>
    /\ UNCHANGED <<store, reachable, written>>
    /\ UNCHANGED <<aggVars, perfVars>>

\* sheet.append_row(row_data).  An unreachable API makes the call raise;
\* nothing in the script catches it.
AppendRow(s) ==
    /\ pc[s] = "append_row"
    /\ IF reachable
       THEN /\ store' = append_row(store, job[s].row_data)
            /\ written' = Append(written, job[s].row_data)
            /\ pc' = [pc EXCEPT ![s] = "clear"]
            /\ UNCHANGED <<job, screen, failed>>
       ELSE /\ pc' = [pc EXCEPT ![s] = "idle"]
            /\ job' = [job EXCEPT ![s] = NoJob]
            /\ screen' = Render(s, Screen("uncaught exception"))
            /\ failed' = failed + 1
            /\ UNCHANGED <<store, written>>
    /\ UNCHANGED <<reachable, cache, presses>>
    /\ UNCHANGED <<aggVars, perfVars>>

\* st.cache_data.clear() and the success message with the total
ClearAndReport(s) ==
    /\ pc[s] = "clear"
    /\ cache' = "empty"
    /\ screen' = Render(s, [Screen("Report Submitted!") EXCEPT
                                !.totals = [m \in {TOTAL} |-> job[s].total_cbhi]])
    /\ pc' = [pc EXCEPT ![s] = "idle"]
    /\ job' = [job EXCEPT ![s] = NoJob]
    /\ UNCHANGED <<store, reachable, written, presses, failed>>
    /\ UNCHANGED <<aggVars, perfVars>>

\* Dashboard run (with or without the Refresh Data button pressed), or
\* report run, up to the call of sheet.get_all_records
ViewRun(s) ==
    /\ pc[s] = "idle"
    /\ \E view \in {"dashboard", "report"}, refresh \in BOOLEAN, sel \in SUBSET Selectable :
          /\ view = "report" => ~refresh /\ sel = {}
          /\ LET sheet == get_google_sheet(IF refresh THEN "empty" ELSE cache, reachable)
             IN  /\ cache' = sheet.cache
                 /\ IF sheet.ok
                    THEN /\ pc' = [pc EXCEPT ![s] = "get_all_records"]
                         /\ job' = [job EXCEPT ![s] =
                                [NoJob EXCEPT !.page = view, !.filter_inst = sel]]
                         /\ UNCHANGED screen
                    ELSE /\ screen' = Render(s, Screen("Connection Error"))
                         /\ UNCHANGED <<pc, job>>
    /\ UNCHANGED <<store, reachable, written, presses, failed>>
    /\ UNCHANGED <<aggVars, perfVars>>

\* sheet.get_all_records() and the rest of the page.  An unreachable API
\* makes the call raise; nothing in the script catches it.
ReadRecords(s) ==
    /\ pc[s] = "get_all_records"
    /\ screen' = Render(s,
            IF ~reachable THEN Screen("uncaught exception")
            ELSE IF job[s].page = "dashboard"
                 THEN Dashboard(get_all_records(store), job[s].filter_inst)
                 ELSE Report(get_all_records(store)))
    /\ pc' = [pc EXCEPT ![s] = "idle"]
    /\ job' = [job EXCEPT ![s] = NoJob]
    /\ UNCHANGED <<store, reachable, cache, written, presses, failed>>
    /\ UNCHANGED <<aggVars, perfVars>>

\* The cached entry reaches its ttl of 3600 seconds
CacheExpire ==
    /\ cache = "sheet"
    /\ cache' = "empty"
    /\ UNCHANGED <<store, reachable, pc, job, screen, written, presses, failed>>
    /\ UNCHANGED <<aggVars, perfVars>>

NetworkDown ==
    /\ reachable
    /\ reachable' = FALSE
    /\ UNCHANGED <<store, cache, pc, job, screen, written, presses, failed>>
    /\ UNCHANGED <<aggVars, perfVars>>

NetworkUp ==
    /\ ~reachable
    /\ reachable' = TRUE
    /\ UNCHANGED <<store, cache, pc, job, screen, written, presses, failed>>
    /\ UNCHANGED <<aggVars, perfVars>>

Next ==
    \/ \E s \in Sessions : EntryBlocked(s)
    \/ \E s \in Sessions : EntryForm(s)
    \/ \E s \in Sessions : EntrySubmit(s)
    \/ \E s \in Sessions : AppendRow(s)
    \/ \E s \in Sessions : ClearAndReport(s)
    \/ \E s \in Sessions : ViewRun(s)
    \/ \E s \in Sessions : ReadRecords(s)
    \/ CacheExpire
    \/ NetworkDown
    \/ NetworkUp

Spec == Init /\ [][Next]_vars

----------------------------------------------------------------------------
(* SpecAgg: the Dashboard and report pages on drawn sheet contents.  The   *)
(* contents are rows the form can write, for the selectable institutions   *)
(* and for an institution cell edited in the sheet to a name outside the   *)
(* plan, with up to MaxBad indicator cells edited to text.                 *)

AggInstitutions == Selectable \cup {"Unlisted Health Post"}

AggRecords ==
    {record_of(row_data(d, "Abebe", "0911", i, t, f)) :
        d \in Dates, i \in AggInstitutions, t \in Instants, f \in FormInputs}

RECURSIVE UpTo(_, _)
UpTo(S, k) ==
    IF k = 0 THEN {{}}
    ELSE UpTo(S, k - 1) \cup {b \cup {x} : b \in UpTo(S, k - 1), x \in S}

Edited(frame, bad) ==
    [i \in 1..Len(frame) |->
        [h \in DOMAIN frame[i] |->
            IF <<i, h>> \in bad THEN <<"str", "n/a">> ELSE frame[i][h]]]

AggInit ==
    /\ \E n \in 0..MaxRows :
          \E frame \in [1..n -> AggRecords] :
             \E bad \in UpTo((1..n) \X Range(ALL_METRICS), MaxBad) :
                df = Edited(frame, bad)
    /\ filter_inst = {}
    /\ page = "none"
    /\ out = Screen("none")

RenderDashboard ==
    /\ page = "none"
    /\ \E sel \in SUBSET Selectable :
          /\ filter_inst' = sel
          /\ out' = Dashboard(df, sel)
    /\ page' = "dashboard"
    /\ UNCHANGED df
    /\ UNCHANGED <<mainVars, perfVars>>

RenderReport ==
    /\ page = "none"
    /\ page' = "report"
    /\ out' = Report(df)
    /\ UNCHANGED <<df, filter_inst>>
    /\ UNCHANGED <<mainVars, perfVars>>

AggNext ==
    \/ RenderDashboard
    \/ RenderReport

InitAgg == MainIdle /\ AggInit /\ PerfIdle

SpecAgg == InitAgg /\ [][AggNext]_vars

----------------------------------------------------------------------------
(* SpecPerf: the 'Performance %' cell of one row on drawn totals *)

PerfInit ==
    /\ total_achieved \in 0..MaxPerfArg
    /\ total_plan \in 0..MaxPerfArg
    /\ perf = [text |-> "none", tenths |-> 0]

FormatPerformance ==
    /\ perf.text = "none"
    /\ perf' = Performance(total_achieved, total_plan)
    /\ UNCHANGED <<total_achieved, total_plan>>
    /\ UNCHANGED <<mainVars, aggVars>>

PerfNext == FormatPerformance

InitPerf == MainIdle /\ AggIdle /\ PerfInit

SpecPerf == InitPerf /\ [][PerfNext]_vars

----------------------------------------------------------------------------
(* Properties *)

IsPrefix(a, b) == Len(a) <= Len(b) /\ SubSeq(b, 1, Len(a)) = a

CellValue(c) == IF c[1] = "int" THEN c[2] ELSE 0

RECURSIVE ColumnTotalTo(_, _, _)
ColumnTotalTo(frame, m, n) ==
    IF n = 0 THEN 0 ELSE CellValue(frame[n][m]) + ColumnTotalTo(frame, m, n - 1)

\* the sum of column m of frame, a cell that is not a number counting as 0
ColumnTotal(frame, m) == ColumnTotalTo(frame, m, Len(frame))

Warning == "Enter Name and Phone to enable the form."

StoredTotalIsSum ==
    \A i \in 1..Len(store) :
        store[i][Pos(TOTAL)] =
            store[i][Pos(HP)] + store[i][Pos(MP)] + store[i][Pos(FR)] + store[i][Pos(NM)]

\* C1 as stated: every stored record's "Total CBHI (Auto)" is the sum of its
\* four membership values, and once no run is in progress the sheet holds as
\* many records as there were accepted submissions (Submit pressed with
\* name and phone filled in).
C1_RecordPerAcceptedSubmission ==
    /\ StoredTotalIsSum
    /\ (\A s \in Sessions : pc[s] = "idle") => Len(store) = presses

\* C1 amended: every stored record's "Total CBHI (Auto)" is the sum of its
\* four membership values, and the sheet holds exactly one record for every
\* accepted submission that has got past append_row: the accepted
\* submissions, less those that ended on a connection failure, less those
\* still before their append_row call.
C1_RecordPerCompletedSubmission ==
    /\ StoredTotalIsSum
    /\ Len(store) = presses - failed - Cardinality({s \in Sessions : pc[s] = "append_row"})

\* the same form submitted twice, both rows stored, with the total 5+3+2+1
C1_Witness ==
    /\ Len(store) = 2
    /\ store[1] = store[2]
    /\ store[1][Pos(TOTAL)] = 11
    /\ presses = 2

\* C2: no stored record has an empty reporter name or phone, and a run that
\* ends on the "Enter Name and Phone" warning leaves the sheet as it was.
C2_NoWriteWithoutReporter ==
    /\ [](\A i \in 1..Len(store) :
            store[i][Pos("Reporter Name")] # "" /\ store[i][Pos("Reporter Phone")] # "")
    /\ [][(screen'.message = Warning /\ screen' # screen)
            => (store' = store /\ presses' = presses)]_vars

\* the warning on screen while the sheet holds a record
C2_Witness == screen.message = Warning /\ Len(store) = 1

\* C3: in every step the old sheet contents are a prefix of the new ones and
\* at most one row is added; a step of a Dashboard or report run (refresh,
\* read, render, export) leaves the sheet as it was.
C3_AppendOnly ==
    [][/\ IsPrefix(store, store')
       /\ Len(store') <= Len(store) + 1
       /\ (\E s \in Sessions :
              /\ pc'[s] # pc[s]
              /\ pc[s] = "get_all_records" \/ pc'[s] = "get_all_records")
          => store' = store]_vars

\* a report rendered from a sheet of two records
C3_Witness ==
    /\ Len(store) = 2
    /\ screen.download = "CBHI_Performance_Report.csv"
    /\ Len(screen.table) = Len(INSTITUTIONS)

\* the rows of written that selection sel lets through (every row for an
\* empty selection), as indices
Selected(sel) ==
    {i \in 1..Len(written) : sel = {} \/ written[i][Pos("Institution")] \in sel}

RECURSIVE WrittenTotal(_, _)
\* the sum of column m over the rows of written whose index is in idx
WrittenTotal(idx, m) ==
    IF idx = {} THEN 0
    ELSE LET i == CHOOSE x \in idx : TRUE
         IN  written[i][Pos(m)] + WrittenTotal(idx \ {i}, m)

\* the dashboard shows every written row that the selection lets through
ShowsEveryWritten(o, sel) ==
    IF written = <<>> THEN o.message = "No data found."
    ELSE /\ Len(o.table) = Cardinality(Selected(sel))
         /\ \A i \in Selected(sel) :
               LET r == o.table[Cardinality({j \in Selected(sel) : j <= i})]
               IN  /\ r["Institution"] = <<"str", written[i][Pos("Institution")]>>
                   /\ r["Reporter Name"] = <<"str", written[i][Pos("Reporter Name")]>>
                   /\ \A m \in Range(ALL_METRICS) : r[m] = <<"int", written[i][Pos(m)]>>
         /\ o.totals[TOTAL] = WrittenTotal(Selected(sel), TOTAL)

\* the report counts every written row under its institution
CountsEveryWritten(o) ==
    IF written = <<>> THEN o.table = <<>>
    ELSE \A k \in 1..Len(INSTITUTIONS) :
            o.table[k].Total_Achieved =
                WrittenTotal({i \in 1..Len(written) :
                                written[i][Pos("Institution")] = INSTITUTIONS[k]}, TOTAL)

\* C4: whenever a Dashboard or report run reads the sheet, what it renders
\* covers every row whose append_row call has returned by then (in
\* particular after a submission cleared the cache, or after Refresh): the
\* dashboard table holds each such row the selection lets through, the
\* report's achieved totals count each such row.
C4_ReadSeesEveryWrittenRecord ==
    [][\A s \in Sessions :
          (pc[s] = "get_all_records" /\ pc'[s] = "idle" /\ reachable)
          => IF job[s].page = "dashboard"
             THEN ShowsEveryWritten(screen', job[s].filter_inst)
             ELSE CountsEveryWritten(screen')]_vars

\* the unfiltered dashboard table showing both submitted records
C4_Witness ==
    /\ Len(written) = 2
    /\ screen.download = "Densa_Report.xlsx"
    /\ Len(screen.table) = 2

\* C5: the sessions whose append_row call has returned each have their own
\* row in the sheet, whole: there are distinct sheet positions holding
\* exactly their row_data, and the sheet holds as many rows as calls returned.
C5_ConcurrentAppendsBothLand ==
    LET done == {s \in Sessions : pc[s] = "clear"}
    IN  /\ Len(store) = Len(written)
        /\ \E f \in [done -> 1..Len(store)] :
              /\ \A s \in done : store[f[s]] = job[s].row_data
              /\ \A s, t \in done : s # t => f[s] # f[t]

\* both sessions between their append_row call and their cache clear
C5_Witness ==
    /\ \A s \in Sessions : pc[s] = "clear"
    /\ Len(store) = 2

\* C6 as stated: a submission that fails because the API is unreachable
\* ends on the Connection Error message, with the sheet as it was.
C6_UnreachableEndsInConnectionError ==
    [][failed' # failed
        => (screen'.message = "Connection Error" /\ store' = store)]_vars

C8_FilterIsSetMembership ==
    page = "dashboard" =>
        LET keep == {i \in 1..Len(df) :
                        \E k \in filter_inst : df[i]["Institution"] = <<"str", k>>}
            rank(i) == Cardinality({j \in keep : j <= i})
        IN  IF filter_inst = {}
            THEN out.table = df
            ELSE /\ Len(out.table) = Cardinality(keep)
                 /\ \A i \in keep : out.table[rank(i)] = df[i]

\* a selection that keeps some of the records and drops others
C8_Witness ==
    /\ page = "dashboard"
    /\ filter_inst # {}
    /\ Len(out.table) = 1
    /\ Len(df) = 2

NonMoneyMetrics ==
    {"Household visited", HP, MP, FR, NM, TOTAL}

\* C9 as stated: the dashboard totals give, for every summed column, the sum
\* of the displayed cells with non-numeric cells as zero; zero for an empty
\* record set, the empty sheet included.
C9_TotalsOverAnyRecordSet ==
    page = "dashboard" =>
        /\ DOMAIN out.totals = NonMoneyMetrics
        /\ \A m \in NonMoneyMetrics : out.totals[m] = ColumnTotal(out.table, m)

\* C9 amended: for a sheet that holds records the totals give, for every
\* summed column, the sum of the displayed cells with non-numeric cells as
\* zero (zero when the filter selects no record); for an empty sheet the
\* page shows "No data found." and no totals at all.
C9_TotalsOverDisplayedRecords ==
    page = "dashboard" =>
        IF df = <<>>
        THEN out.message = "No data found." /\ DOMAIN out.totals = {}
        ELSE /\ DOMAIN out.totals = NonMoneyMetrics
             /\ \A m \in NonMoneyMetrics : out.totals[m] = ColumnTotal(out.table, m)
             /\ out.table = <<>> => \A m \in NonMoneyMetrics : out.totals[m] = 0

\* a displayed text cell in a summed column whose total is still the sum of
\* the other cells
C9_Witness ==
    /\ page = "dashboard"
    /\ Len(out.table) = 2
    /\ out.table[1][HP] = <<"str", "n/a">>
    /\ out.table[2][HP] = <<"int", 5>>
    /\ out.totals[HP] = 5

\* C10: for a sheet that holds records the report has one row per
\* institution of CBHI_PLAN, in plan order, whose achieved values are the
\* sums of the institution's records (0 without records) and whose plan
\* values are the plan's; one record for "03 Derew Health Post" with higher
\* paid 5 gives Achieved Higher Paid 5 against Plan Higher Paid 456.
C10_ReportRowPerInstitution ==
    (page = "report" /\ df # <<>>) =>
        /\ Len(out.table) = Len(INSTITUTIONS)
        /\ \A i \in 1..Len(INSTITUTIONS) :
              LET k == INSTITUTIONS[i]
                  r == out.table[i]
                  mine == SelectSeq(df, LAMBDA x : x["Institution"] = <<"str", k>>)
              IN  /\ r.Institution = k
                  /\ r.Achieved_Higher_Paid = ColumnTotal(mine, HP)
                  /\ r.Achieved_Medium_Paid = ColumnTotal(mine, MP)
                  /\ r.Achieved_Free = ColumnTotal(mine, FR)
                  /\ r.Achieved_New_Membership = ColumnTotal(mine, NM)
                  /\ r.Plan_Higher_Paid = CBHI_PLAN[k]["higher paid"]
                  /\ r.Plan_Medium_Paid = CBHI_PLAN[k]["medium paid"]
                  /\ r.Plan_Free = CBHI_PLAN[k]["free"]
                  /\ r.Plan_New_Membership = CBHI_PLAN[k]["new membership"]
        /\ (/\ Len(df) = 1
            /\ df[1]["Institution"] = <<"str", "03 Derew Health Post">>
            /\ df[1][HP] = <<"int", 5>>)
           => (out.table[3].Achieved_Higher_Paid = 5 /\ out.table[3].Plan_Higher_Paid = 456)

\* the report of the end-to-end example
C10_Witness ==
    /\ page = "report"
    /\ Len(df) = 1
    /\ df[1]["Institution"] = <<"str", "03 Derew Health Post">>
    /\ df[1][HP] = <<"int", 5>>
    /\ out.table[3].Achieved_Higher_Paid = 5
    /\ out.table[3].Plan_Higher_Paid = 456
    /\ out.table[2].Achieved_Higher_Paid = 0

====
